---------------------------- MODULE Spec2Model ----------------------------
(***************************************************************************)
(* Model of the CacheDiff derive macro (cache_diff_derive) and of the      *)
(* diff function it generates.                                             *)
(*                                                                         *)
(* Text (String, identifiers, messages, syn::Path) is a sequence of        *)
(* fragments: an identifier is the sequence of its characters, a path the  *)
(* sequence of its segments, a message the sequence of the pieces format!  *)
(* puts together.  Concatenation of text is \o.                            *)
(***************************************************************************)
EXTENDS Integers, Sequences, FiniteSets, TLC

VARIABLES
    item,         \* the DeriveInput handed to the macro
    pc,           \* "derive" | "built" | "compile_error" | "diffed" | "validate" | "validated"
    container,    \* Result<ParseContainer, syn::Error> of from_derive_input
    expansion,    \* what create_cache_diff returned: the impl, or the error
    current,      \* self of the last diff call
    old,          \* old of the last diff call
    differences,  \* the Vec<String> the last diff call returned
    collection,   \* a list of WithSpan<ParseAttribute> given to a validator
    checked       \* the last validator call and its result

vars == <<item, pc, container, expansion, current, old, differences,
          collection, checked>>

None == [some |-> FALSE]
Some(v) == [some |-> TRUE, v |-> v]

Ok(v) == [ok |-> TRUE, val |-> v]
Err(e) == [ok |-> FALSE, err |-> e]

----------------------------------------------------------------------------
(* cache_diff_derive/src/lib.rs *)

NAMESPACE == "cache_diff"
MACRO_NAME == "CacheDiff"

----------------------------------------------------------------------------
(* Text helpers *)

\* The backquote character of the messages (a string cannot hold it).
BQ == "\\x60"

RECURSIVE Flatten(_)
Flatten(ss) == IF ss = <<>> THEN <<>> ELSE Head(ss) \o Flatten(Tail(ss))

\* [a, b, c].join(sep)
RECURSIVE Join(_, _)
Join(texts, sep) ==
    IF texts = <<>> THEN <<>>
    ELSE IF Len(texts) = 1 THEN Head(texts)
    ELSE Head(texts) \o sep \o Join(Tail(texts), sep)

\* str::replace(from, to) for a one-character pattern
RECURSIVE Replace(_, _, _)
Replace(s, from, to) ==
    IF s = <<>> THEN <<>>
    ELSE <<IF Head(s) = from THEN to ELSE Head(s)>> \o Replace(Tail(s), from, to)

\* A diagnostic: one message of a syn::Error, with the span it points at.
\* A syn::Error is a non-empty sequence of diagnostics.
Diag(span, msg) == [span |-> span, msg |-> msg]
NewError(span, msg) == <<Diag(span, msg)>>

\* Spans: <<item, block, position>>; item 0 is the container, item i > 0 the
\* i-th field; block 0, position 0 is the identifier of the item itself.
IdentSpan == <<0, 0, 0>>
FieldSpan(fi) == <<fi, 0, 0>>

----------------------------------------------------------------------------
(* cache_diff_derive/src/shared.rs *)

\* ErrorBank: VecDeque<syn::Error>
combine(errors) == IF errors = <<>> THEN None ELSE Some(Flatten(errors))

WithSpan(parsed, span) == [attr |-> parsed, span |-> span]

discriminant(parsed) == parsed.kind

\* strum::Display of a discriminant
KindText(key) == <<key>>

\* Mutant: the map keeps the entry it already holds for the key
InsertKeepsFirst(seen, key, attribute) ==
    [k \in DOMAIN seen \cup {key} |-> IF k \in DOMAIN seen THEN seen[k] ELSE attribute]

\* seen.insert(key, attribute): the map afterwards
Insert(seen, key, attribute) ==
    [k \in DOMAIN seen \cup {key} |-> IF k = key THEN attribute ELSE seen[k]]

\* The two errors pushed for a repeated kind
Duplicate(key, span, prior) ==
    << NewError(span, <<MACRO_NAME, " duplicate attribute: ", BQ>> \o KindText(key) \o <<BQ>>),
       NewError(prior, <<"previously ", BQ>> \o KindText(key) \o <<BQ, " defined here">>) >>

\* for attribute in parsed_attributes { .. }
RECURSIVE UniqueLoop(_, _, _, _)
UniqueLoop(attrs, i, seen, errors) ==
    IF i > Len(attrs) THEN [seen |-> seen, errors |-> errors]
    ELSE IF discriminant(attrs[i].attr) \in DOMAIN seen
         THEN UniqueLoop(attrs, i + 1,
                         Insert(seen, discriminant(attrs[i].attr), attrs[i]),
                         errors \o Duplicate(discriminant(attrs[i].attr), attrs[i].span,
                                             seen[discriminant(attrs[i].attr)].span))
         ELSE UniqueLoop(attrs, i + 1,
                         Insert(seen, discriminant(attrs[i].attr), attrs[i]), errors)

EmptyMap == [k \in {} |-> None]

UniqueResult(r) == IF r.errors = <<>> THEN Ok(r.seen) ELSE Err(Flatten(r.errors))

unique(parsed_attributes) ==
    UniqueResult(UniqueLoop(parsed_attributes, 1, EmptyMap, <<>>))

\* keys.iter(): the elements of a HashSet in its iteration order, which the
\* hasher decides; 'hasher' lists all kinds in that order.
HashIter(keys, hasher) == SelectSeq(hasher, LAMBDA k : k \in keys)

QuoteKeys(ks) == [i \in 1..Len(ks) |-> <<BQ>> \o KindText(ks[i]) \o <<BQ>>]

RECURSIVE ExclusiveLoop(_, _, _, _, _)
ExclusiveLoop(exclusive, coll, i, other_keys, errors) ==
    IF i > Len(coll) THEN errors
    ELSE IF discriminant(coll[i].attr) = exclusive
         THEN ExclusiveLoop(exclusive, coll, i + 1, other_keys,
                << NewError(coll[i].span,
                     <<"cannot be used with other attributes. Remove ether ", BQ>>
                       \o KindText(exclusive) \o <<BQ, " or ">> \o other_keys) >> \o errors)
         ELSE ExclusiveLoop(exclusive, coll, i + 1, other_keys,
                errors \o
                << NewError(coll[i].span,
                     <<"cannot be used with #[", NAMESPACE, "(">>
                       \o KindText(exclusive) \o <<")]">>) >>)

Discriminants(coll) == {discriminant(coll[i].attr) : i \in 1..Len(coll)}

ExclusiveResult(errors) == IF errors = <<>> THEN Ok(<<>>) ELSE Err(Flatten(errors))

\* Mutant: the test for other kinds is left out
ExclusiveErrorsAlone(exclusive, coll, removed, keys, hasher) ==
    IF removed
    THEN ExclusiveLoop(exclusive, coll, 1,
                       Join(QuoteKeys(HashIter(keys, hasher)), <<", ">>), <<>>)
    ELSE <<>>

\* if keys.remove(&exclusive) && !keys.is_empty() { .. }
ExclusiveErrors(exclusive, coll, removed, keys, hasher) ==
    IF removed /\ keys # {}
    THEN ExclusiveLoop(exclusive, coll, 1,
                       Join(QuoteKeys(HashIter(keys, hasher)), <<", ">>), <<>>)
    ELSE <<>>

check_exclusive(exclusive, coll, hasher) ==
    ExclusiveResult(ExclusiveErrors(exclusive, coll,
                                    exclusive \in Discriminants(coll),
                                    Discriminants(coll) \ {exclusive}, hasher))

\* known_attribute::<T>: 'kinds' is T::iter(), the enum in declaration order
known_attribute(identity, span, kinds) ==
    IF \E i \in 1..Len(kinds) : kinds[i] = identity
    THEN Ok(identity)
    ELSE Err(NewError(span,
            <<"Unknown ", NAMESPACE, " attribute: ", BQ, identity, BQ, ". Must be one of ">>
              \o Join(QuoteKeys(kinds), <<", ">>)))

\* One raw attribute inside a #[cache_diff(...)] block: a key, then nothing,
\* or = "literal", or = some::path.
NoArg == [t |-> "none"]
Lit(text) == [t |-> "lit", lit |-> text]
PathArg(path) == [t |-> "path", path |-> path]
Tok(key, arg) == [key |-> key, arg |-> arg]

\* A #[...] block: its path and its comma separated raw attributes.
Block(path, tokens) == [path |-> path, tokens |-> tokens]

\* The errors of input.parse::<syn::Token![=]>(), ::<syn::LitStr>(), ::<syn::Path>()
ExpectedEq(span) == Err(NewError(span, <<"expected ", BQ, "=", BQ>>))
ExpectedLitStr(span) == Err(NewError(span, <<"expected string literal">>))
ExpectedPath(span) == Err(NewError(span, <<"expected identifier">>))

----------------------------------------------------------------------------
(* cache_diff_derive/src/parse_field.rs: the field attribute grammar *)

\* enum KnownAttribute, in declaration order
FieldKnownAttribute == <<"rename", "display", "ignore">>

\* KnownAttribute::rename => ...
ParseRename(tok, span) ==
    IF tok.arg.t = "none" THEN ExpectedEq(span)
    ELSE IF tok.arg.t # "lit" THEN ExpectedLitStr(span)
    ELSE Ok([kind |-> "rename", inner |-> tok.arg.lit])

\* KnownAttribute::display => ...
ParseDisplay(tok, span) ==
    IF tok.arg.t = "none" THEN ExpectedEq(span)
    ELSE IF tok.arg.t # "path" THEN ExpectedPath(span)
    ELSE Ok([kind |-> "display", inner |-> tok.arg.path])

\* KnownAttribute::ignore => ...
ParseIgnore(tok, span) ==
    IF tok.arg.t # "none"
    THEN IF tok.arg.t # "lit" THEN ExpectedLitStr(span)
         ELSE Ok([kind |-> "ignore", inner |-> tok.arg.lit])
    ELSE Ok([kind |-> "ignore", inner |-> <<"default">>])

\* match key { ... } of <ParseAttribute as Parse>::parse
FieldMatchKey(key, tok, span) ==
    IF ~key.ok THEN key
    ELSE IF key.val = "rename" THEN ParseRename(tok, span)
    ELSE IF key.val = "display" THEN ParseDisplay(tok, span)
    ELSE ParseIgnore(tok, span)

FieldParseAttribute(tok, span) ==
    FieldMatchKey(known_attribute(tok.key, span, FieldKnownAttribute), tok, span)

----------------------------------------------------------------------------
(* cache_diff_derive/src/parse_container.rs: the container attribute grammar *)

ContainerKnownAttribute == <<"custom">>

ContainerMatchKey(key, tok, span) ==
    IF ~key.ok THEN key
    ELSE IF tok.arg.t = "none" THEN ExpectedEq(span)
    ELSE IF tok.arg.t # "path" THEN ExpectedPath(span)
    ELSE Ok([kind |-> "custom", inner |-> tok.arg.path])

ContainerParseAttribute(tok, span) ==
    ContainerMatchKey(known_attribute(tok.key, span, ContainerKnownAttribute), tok, span)

----------------------------------------------------------------------------
(* cache_diff_derive/src/shared.rs: parse_attrs *)

SpanOf(r, span) == IF r.ok THEN Ok(WithSpan(r.val, span)) ELSE r

\* <WithSpan<T> as Parse>::parse; scope selects T
ParseWithSpan(scope, tok, span) ==
    IF scope = "field" THEN SpanOf(FieldParseAttribute(tok, span), span)
    ELSE SpanOf(ContainerParseAttribute(tok, span), span)

\* attr.parse_args_with(Punctuated::<T, Token![,]>::parse_terminated):
\* the attributes of one block, or the first failure inside the block
RECURSIVE ParseTerminated(_, _, _, _, _, _)
ParseTerminatedStep(scope, tokens, it, bi, i, acc, r) ==
    IF r.ok THEN ParseTerminated(scope, tokens, it, bi, i + 1, Append(acc, r.val))
    ELSE r

ParseTerminated(scope, tokens, it, bi, i, acc) ==
    IF i > Len(tokens) THEN Ok(acc)
    ELSE ParseTerminatedStep(scope, tokens, it, bi, i, acc,
                             ParseWithSpan(scope, tokens[i], <<it, bi, i>>))

\* Mutant: the first block that fails ends the loop
ParseAttrsStepStops(scope, attrs, it, bi, attributes, errors, r) ==
    IF r.ok
    THEN [attributes |-> attributes \o r.val, errors |-> errors]
    ELSE [attributes |-> attributes, errors |-> Append(errors, r.err)]

RECURSIVE ParseAttrsLoop(_, _, _, _, _, _)
ParseAttrsStep(scope, attrs, it, bi, attributes, errors, r) ==
    IF r.ok
    THEN ParseAttrsLoop(scope, attrs, it, bi + 1, attributes \o r.val, errors)
    ELSE ParseAttrsLoop(scope, attrs, it, bi + 1, attributes, Append(errors, r.err))

ParseAttrsLoop(scope, attrs, it, bi, attributes, errors) ==
    IF bi > Len(attrs) THEN [attributes |-> attributes, errors |-> errors]
    ELSE IF attrs[bi].path # NAMESPACE
         THEN ParseAttrsLoop(scope, attrs, it, bi + 1, attributes, errors)
         ELSE ParseAttrsStep(scope, attrs, it, bi, attributes, errors,
                             ParseTerminated(scope, attrs[bi].tokens, it, bi, 1, <<>>))

\* Mutant: the attributes that parsed are returned whatever failed
ParseAttrsResultLenient(r) == Ok(r.attributes)

\* if let Some(error) = combine(errors) { Err(error) } else { Ok(value) }
ErrOrOk(errors, value) == IF errors = <<>> THEN Ok(value) ELSE Err(Flatten(errors))

ParseAttrsResult(r) == ErrOrOk(r.errors, r.attributes)

\* parse_attrs::<WithSpan<T>>(attrs) for the blocks of item number 'it'
parse_attrs(scope, attrs, it) ==
    ParseAttrsResult(ParseAttrsLoop(scope, attrs, it, 1, <<>>, <<>>))

----------------------------------------------------------------------------
(* cache_diff_derive/src/parse_field.rs: ParseField *)

\* A declared type: a path type (its segments, and whether the last segment
\* has generic arguments), or some other kind of type.
TypePath(segments, arguments) ==
    [kind |-> "path", segments |-> segments, arguments |-> arguments]

is_pathbuf(ty) ==
    IF ty.kind = "path" /\ ty.segments # <<>>
    THEN ty.segments[Len(ty.segments)] = "PathBuf" /\ ~ty.arguments
    ELSE FALSE

PathDisplay == <<"std", "path", "Path", "display">>
Identity == <<"std", "convert", "identity">>

\* The payload the unique attributes hold for a kind, if any
Lookup(uniq, key) ==
    IF uniq.ok /\ key \in DOMAIN uniq.val THEN Some(uniq.val[key].attr.inner) ELSE None

ErrorsOf(r) == IF r.ok THEN <<>> ELSE <<r.err>>

\* Mutant: the rename is not used
DisplayNameWithoutRename(rename, ident) == Replace(ident, "_", " ")

\* name: rename.unwrap_or_else(|| ident.to_string().replace("_", " "))
DisplayName(rename, ident) == IF rename.some THEN rename.v ELSE Replace(ident, "_", " ")

\* Mutant: the type is looked at before the display attribute
DisplayFnTypeFirst(display, ty) ==
    IF is_pathbuf(ty) THEN PathDisplay
    ELSE IF display.some THEN display.v
    ELSE Identity

\* display: display.unwrap_or_else(|| if is_pathbuf(&field.ty) { .. } else { .. })
DisplayFn(display, ty) ==
    IF display.some THEN display.v
    ELSE IF is_pathbuf(ty) THEN PathDisplay
    ELSE Identity

\* The end of from_field: the combined error, or the ParseField
FromFieldResult(field, errors, uniq) ==
    IF errors # <<>> THEN Err(Flatten(errors))
    ELSE Ok([ident |-> field.ident.v,
             name |-> DisplayName(Lookup(uniq, "rename"), field.ident.v),
             ignore |-> Lookup(uniq, "ignore"),
             display |-> DisplayFn(Lookup(uniq, "display"), field.ty)])

\* Mutant: the uniqueness errors are dropped when the exclusivity check failed
FromFieldCheckedFirstOnly(field, exclusive, uniq) ==
    FromFieldResult(field,
                    IF exclusive.ok THEN ErrorsOf(uniq) ELSE ErrorsOf(exclusive),
                    uniq)

\* from_field: check_exclusive, then unique, both pushed to errors

FromFieldChecked(field, exclusive, uniq) ==
    FromFieldResult(field, ErrorsOf(exclusive) \o ErrorsOf(uniq), uniq)

\* from_field after parse_attrs(..)?
FromFieldParsed(field, attributes, hasher) ==
    IF ~attributes.ok THEN attributes
    ELSE FromFieldChecked(field,
                          check_exclusive("ignore", attributes.val, hasher),
                          unique(attributes.val))

\* ParseField::from_field for the field number 'fi' of the struct
from_field(field, fi, hasher) ==
    IF ~field.ident.some
    THEN Err(NewError(FieldSpan(fi),
                      <<MACRO_NAME, " can only be used on structs with named fields">>))
    ELSE FromFieldParsed(field, parse_attrs("field", field.attrs, fi), hasher)

----------------------------------------------------------------------------
(* cache_diff_derive/src/parse_container.rs: ParseContainer *)

MissingCustom(input, syn_field) ==
    NewError(IdentSpan,
        <<"field ", BQ>> \o syn_field.ident.v \o <<BQ, " on ">> \o input.ident
          \o <<" marked ignored as custom, but missing ", BQ, "#[", NAMESPACE, "(">>
          \o KindText("custom")
          \o <<")]", BQ, " found on ", BQ>> \o input.ident \o <<BQ>>)

RECURSIVE FieldsLoop(_, _, _, _, _, _)

\* Mutant: the test for a resolved custom function is left out
FieldsStepAnyCustom(input, i, custom, hashers, fields, errors, r) ==
    IF r.ok /\ r.val.ignore.some
    THEN IF r.val.ignore.v = <<"custom">>
         THEN FieldsLoop(input, i + 1, custom, hashers, fields,
                         Append(errors, MissingCustom(input, input.fields[i])))
         ELSE FieldsLoop(input, i + 1, custom, hashers, fields, errors)
    ELSE IF r.ok
    THEN FieldsLoop(input, i + 1, custom, hashers, Append(fields, r.val), errors)
    ELSE FieldsLoop(input, i + 1, custom, hashers, fields, Append(errors, r.err))

\* match ParseField::from_field(syn_field) { Ok(field) => .., Err(error) => .. }
FieldsStep(input, i, custom, hashers, fields, errors, r) ==
    IF r.ok /\ r.val.ignore.some
    THEN IF r.val.ignore.v = <<"custom">> /\ ~custom.some
         THEN FieldsLoop(input, i + 1, custom, hashers, fields,
                         Append(errors, MissingCustom(input, input.fields[i])))
         ELSE FieldsLoop(input, i + 1, custom, hashers, fields, errors)
    ELSE IF r.ok
    THEN FieldsLoop(input, i + 1, custom, hashers, Append(fields, r.val), errors)
    ELSE FieldsLoop(input, i + 1, custom, hashers, fields, Append(errors, r.err))

\* for syn_field in syn_fields.iter() { .. }
FieldsLoop(input, i, custom, hashers, fields, errors) ==
    IF i > Len(input.fields) THEN [fields |-> fields, errors |-> errors]
    ELSE FieldsStep(input, i, custom, hashers, fields, errors,
                    from_field(input.fields[i], i, hashers[i]))

NoFields ==
    NewError(IdentSpan,
        <<"No fields to compare for ", MACRO_NAME,
          ", ensure struct has at least one named field that isn't ", BQ, NAMESPACE, "(">>
          \o KindText("ignore") \o <<")", BQ>>)

\* Mutant: no test for an empty list of fields
FromDeriveInputResultUnchecked(input, custom, r) ==
    IF r.errors # <<>> THEN Err(Flatten(r.errors))
    ELSE Ok([ident |-> input.ident, custom |-> custom, fields |-> r.fields])

\* Mutant: the list of fields is tested before the accumulated errors
FromDeriveInputResultFieldsFirst(input, custom, r) ==
    IF r.fields = <<>> THEN Err(NoFields)
    ELSE IF r.errors # <<>> THEN Err(Flatten(r.errors))
    ELSE Ok([ident |-> input.ident, custom |-> custom, fields |-> r.fields])

\* The end of from_derive_input
FromDeriveInputResult(input, custom, r) ==
    IF r.errors # <<>> THEN Err(Flatten(r.errors))
    ELSE IF r.fields = <<>> THEN Err(NoFields)
    ELSE Ok([ident |-> input.ident, custom |-> custom, fields |-> r.fields])

\* Mutant: a failure of the container's attributes ends the build at once
FromDeriveInputFieldsStops(input, hashers, uniq) ==
    IF ~uniq.ok THEN uniq
    ELSE IF input.data # "struct_named"
    THEN Err(NewError(IdentSpan, <<MACRO_NAME, " can only be used on named structs">>))
    ELSE FromDeriveInputResult(input, Lookup(uniq, "custom"),
            FieldsLoop(input, 1, Lookup(uniq, "custom"), hashers, <<>>, <<>>))

\* from_derive_input after the container's own attributes
FromDeriveInputFields(input, hashers, uniq) ==
    IF input.data # "struct_named"
    THEN Err(NewError(IdentSpan, <<MACRO_NAME, " can only be used on named structs">>))
    ELSE FromDeriveInputResult(input, Lookup(uniq, "custom"),
            FieldsLoop(input, 1, Lookup(uniq, "custom"), hashers, <<>>, ErrorsOf(uniq)))

\* parse_attrs(&input.attrs).and_then(unique)
AndThenUnique(parsed) == IF parsed.ok THEN unique(parsed.val) ELSE parsed

\* ParseContainer::from_derive_input; hashers[i] is the iteration order of
\* the HashSet built while field i is checked
from_derive_input(input, hashers) ==
    FromDeriveInputFields(input, hashers,
                          AndThenUnique(parse_attrs("container", input.attrs, 0)))

----------------------------------------------------------------------------
(* cache_diff_derive/src/lib.rs: the generator *)

RECURSIVE Comparisons(_, _)
Comparisons(fields, i) ==
    IF i > Len(fields) THEN <<>>
    ELSE (IF ~fields[i].ignore.some
          THEN <<[ident |-> fields[i].ident, name |-> fields[i].name,
                  display |-> fields[i].display]>>
          ELSE <<>>) \o Comparisons(fields, i + 1)

\* create_cache_diff: the impl block it emits, as the data its body is made of
create_cache_diff(parsed) ==
    IF ~parsed.ok THEN parsed
    ELSE Ok([ident |-> parsed.val.ident,
             custom_diff |-> parsed.val.custom,
             comparisons |-> Comparisons(parsed.val.fields, 1)])

----------------------------------------------------------------------------
(* The code the emitted impl calls: user functions and the standard library *)

Value(ty, v) == [ty |-> ty, v |-> v]

IsNaN(a) == a.ty = "f32" /\ a.v = <<"NaN">>

\* self.field != old.field: PartialEq::ne of the field's type
Ne(a, b) == IF IsNaN(a) \/ IsNaN(b) THEN TRUE ELSE a.v # b.v

\* fn my_function(s: &NoDisplay) -> String
my_function(value) == <<"custom ">> \o value.v

\* #display(&value), then formatted with {}
CallDisplay(display, value) ==
    IF display = <<"my_function">> THEN my_function(value)
    ELSE value.v

MAX == 200

F32(v) == IF v = <<"201">> THEN 201 ELSE IF v = <<"1">> THEN 1 ELSE 0

cache_usage_count == <<"c","a","c","h","e","_","u","s","a","g","e","_","c","o","u","n","t">>

\* fn diff_cache_usage_count(_old: &Metadata, now: &Metadata) -> Vec<String>
diff_cache_usage_count(old_, now) ==
    IF ~IsNaN(now[cache_usage_count]) /\ F32(now[cache_usage_count].v) > MAX
    THEN << <<"Cache count (">> \o now[cache_usage_count].v \o <<") exceeded limit 200">> >>
    ELSE <<>>

\* #custom_fn(old, self)
CallCustom(custom_fn, old_, now) == diff_cache_usage_count(old_, now)

\* Mutant: the new value before the old one
FormatDifferenceNewFirst(name, old_, new) ==
    name \o <<" (">> \o new \o <<" to ">> \o old_ \o <<")">>

\* format!("{name} ({old} to {new})", ...)
FormatDifference(name, old_, new) == name \o <<" (">> \o old_ \o <<" to ">> \o new \o <<")">>

\* Mutant: == for !=
ComparisonOfEqual(c, self, old_) ==
    IF ~Ne(self[c.ident], old_[c.ident])
    THEN << <<"unchanged">> >>
    ELSE <<>>

\* if self.#ident != old.#ident { differences.push(format!(...)) }
Comparison(c, self, old_) ==
    IF Ne(self[c.ident], old_[c.ident])
    THEN << FormatDifference(c.name,
                             CallDisplay(c.display, old_[c.ident]),
                             CallDisplay(c.display, self[c.ident])) >>
    ELSE <<>>

RECURSIVE RunComparisons(_, _, _, _)
RunComparisons(comparisons, i, self, old_) ==
    IF i > Len(comparisons) THEN <<>>
    ELSE Comparison(comparisons[i], self, old_)
         \o RunComparisons(comparisons, i + 1, self, old_)

\* Mutant: the hook called with (self, old)
CustomDiffSelfFirst(impl, self, old_) ==
    IF impl.custom_diff.some THEN diff_cache_usage_count(self, old_) ELSE <<>>

CustomDiff(impl, self, old_) ==
    IF impl.custom_diff.some THEN CallCustom(impl.custom_diff.v, old_, self) ELSE <<>>

\* <T as CacheDiff>::diff(&self, old) of the emitted impl
diff(impl, self, old_) ==
    CustomDiff(impl, self, old_) \o RunComparisons(impl.comparisons, 1, self, old_)

TypeName(ty) == IF ty.kind = "path" /\ ty.segments # <<>>
                THEN ty.segments[Len(ty.segments)] ELSE "other"

FieldType(input, ident) ==
    LET i == CHOOSE i \in 1..Len(input.fields) : input.fields[i].ident.v = ident
    IN  TypeName(input.fields[i].ty)

\* The display function accepts a reference to a value of the type, and what
\* it returns implements Display.
DisplayAccepts(display, ty) ==
    IF display = Identity THEN ty \in {"String", "f32"}
    ELSE IF display = PathDisplay THEN ty = "PathBuf"
    ELSE IF display = <<"my_function">> THEN ty = "NoDisplay"
    ELSE FALSE

\* rustc accepts the emitted impl for the declared struct
Compiles(input, impl) ==
    /\ \A i \in 1..Len(impl.comparisons) :
          DisplayAccepts(impl.comparisons[i].display,
                         FieldType(input, impl.comparisons[i].ident))
    /\ impl.custom_diff.some =>
          /\ impl.custom_diff.v = <<"diff_cache_usage_count">>
          /\ \E i \in 1..Len(input.fields) :
                /\ input.fields[i].ident.v = cache_usage_count
                /\ TypeName(input.fields[i].ty) = "f32"

ValuesOf(ty) ==
    IF ty = "String" THEN {Value(ty, <<"3.3.1">>), Value(ty, <<"3.4.2">>)}
    ELSE IF ty = "f32" THEN {Value(ty, <<"1">>), Value(ty, <<"201">>), Value(ty, <<"NaN">>)}
    ELSE IF ty = "PathBuf" THEN {Value(ty, <<"/tmp/a">>), Value(ty, <<"/tmp/b">>)}
    ELSE IF ty = "NoDisplay" THEN {Value(ty, <<"3.3.0">>), Value(ty, <<"3.4.0">>)}
    ELSE {}

\* The instances of the declared struct: a value of its type for every field
RECURSIVE InstancesUpTo(_, _)
InstancesUpTo(input, n) ==
    IF n = 0 THEN {[id \in {} |-> None]}
    ELSE { [id \in DOMAIN s \cup {input.fields[n].ident.v} |->
               IF id = input.fields[n].ident.v THEN v ELSE s[id]] :
             s \in InstancesUpTo(input, n - 1),
             v \in ValuesOf(TypeName(input.fields[n].ty)) }

Instances(input) == InstancesUpTo(input, Len(input.fields))

----------------------------------------------------------------------------
(* The declarations the macro is run on *)

MaxFields == 2   \* fields of a struct declared from the field templates
MaxWritten == 4  \* fields plus raw attributes written in one declaration
MaxLen == 4      \* attributes in a list given to a validator alone

ruby_version == <<"r","u","b","y","_","v","e","r","s","i","o","n">>
architecture == <<"a","r","c","h","i","t","e","c","t","u","r","e">>
os_version == <<"o","s","_","v","e","r","s","i","o","n">>
target_arch == <<"t","a","r","g","e","t","_","a","r","c","h">>
binary_version == <<"b","i","n","a","r","y","_","v","e","r","s","i","o","n">>

\* The name of the i-th declared field
FieldIdents ==
    <<cache_usage_count, ruby_version, architecture, os_version, target_arch, binary_version>>

Metadata == <<"Metadata">>

TRename == Tok("rename", Lit(<<"Ruby version">>))
TDisplay == Tok("display", PathArg(<<"my_function">>))
TIgnore == Tok("ignore", NoArg)
TIgnoreCustom == Tok("ignore", Lit(<<"custom">>))
TUnknown == Tok("unknown", NoArg)
TRenameBare == Tok("rename", NoArg)
TCustom == Tok("custom", PathArg(<<"diff_cache_usage_count">>))

FieldTokens == {TRename, TDisplay, TIgnore, TIgnoreCustom, TUnknown, TRenameBare}
ContainerTokens == {TCustom, TUnknown}

StringTy == TypePath(<<"String">>, FALSE)
F32Ty == TypePath(<<"f32">>, FALSE)
PathBufTy == TypePath(<<"std", "path", "PathBuf">>, FALSE)
NoDisplayTy == TypePath(<<"NoDisplay">>, FALSE)
PathBufOfTy == TypePath(<<"PathBuf">>, TRUE)   \* a generic type of that name

Field(i, ty, attrs) == [ident |-> Some(FieldIdents[i]), ty |-> ty, attrs |-> attrs]

DeriveInput(data, attrs, fields) ==
    [ident |-> Metadata, data |-> data, attrs |-> attrs, fields |-> fields]

\* The block lists that hold exactly n raw attributes, no block empty
RECURSIVE Annotations(_, _)
Annotations(alphabet, n) ==
    IF n = 0 THEN {<<>>}
    ELSE UNION { { <<Block(NAMESPACE, b)>> \o rest :
                     b \in [1..k -> alphabet], rest \in Annotations(alphabet, n - k) } :
                 k \in 1..n }

\* The block lists of the fields of a struct written with exactly n units,
\* a field costing one unit and each of its raw attributes one more
RECURSIVE FieldAnnotations(_)
FieldAnnotations(n) ==
    IF n = 0 THEN {<<>>}
    ELSE UNION { { <<a>> \o rest :
                     a \in Annotations(FieldTokens, k),
                     rest \in FieldAnnotations(n - 1 - k) } :
                 k \in 0..(n - 1) }

\* Named structs of String fields, every way to write at most MaxWritten
\* fields and raw attributes, on the container and on the fields
WrittenStructs ==
    UNION { UNION { { DeriveInput("struct_named", ca,
                                  [i \in 1..Len(fa) |-> Field(i, StringTy, fa[i])]) :
                        ca \in Annotations(ContainerTokens, kc),
                        fa \in FieldAnnotations(kf) } :
                    kf \in 0..(MaxWritten - kc) } :
            kc \in 0..MaxWritten }

\* Declarations that are no struct with named fields
OtherShapes ==
    UNION { { DeriveInput(data, ca, <<>>) :
                data \in {"struct_tuple", "struct_unit", "enum"},
                ca \in Annotations(ContainerTokens, kc) } :
            kc \in 0..MaxWritten }

\* Fields as the crate's documentation declares them
FieldTemplates ==
    { [ty |-> StringTy, attrs |-> <<>>],
      [ty |-> StringTy, attrs |-> <<Block(NAMESPACE, <<TRename>>)>>],
      [ty |-> StringTy, attrs |-> <<Block(NAMESPACE, <<TIgnore>>)>>],
      [ty |-> StringTy, attrs |-> <<Block("serde", <<TRename>>)>>],
      [ty |-> F32Ty, attrs |-> <<>>],
      [ty |-> F32Ty, attrs |-> <<Block(NAMESPACE, <<TIgnoreCustom>>)>>],
      [ty |-> NoDisplayTy, attrs |-> <<Block(NAMESPACE, <<TDisplay>>)>>],
      [ty |-> PathBufTy, attrs |-> <<>>],
      [ty |-> PathBufTy, attrs |-> <<Block(NAMESPACE, <<TDisplay>>)>>],
      [ty |-> PathBufOfTy, attrs |-> <<>>] }

TypedStructs ==
    UNION { { DeriveInput("struct_named", ca,
                          [i \in 1..n |-> Field(i, t[i].ty, t[i].attrs)]) :
                t \in [1..n -> FieldTemplates],
                ca \in {<<>>, <<Block(NAMESPACE, <<TCustom>>)>>} } :
            n \in 0..MaxFields }

DeriveInputs == WrittenStructs \cup OtherShapes \cup TypedStructs

\* Parsed field attributes, for the validators
ParsedAttributes ==
    { [kind |-> "rename", inner |-> <<"Ruby version">>],
      [kind |-> "display", inner |-> <<"my_function">>],
      [kind |-> "ignore", inner |-> <<"default">>],
      [kind |-> "ignore", inner |-> <<"custom">>] }

Collections ==
    UNION { { [i \in 1..n |-> WithSpan(a[i], <<1, 1, i>>)] : a \in [1..n -> ParsedAttributes] } :
            n \in 0..MaxLen }

RECURSIVE Perms(_)
Perms(S) == IF S = {} THEN {<<>>}
            ELSE UNION { { <<x>> \o p : p \in Perms(S \ {x}) } : x \in S }

\* The orders a HashSet of the kinds left after remove(&exclusive) can iterate in
HashOrders(kinds, exclusive) ==
    Perms({kinds[i] : i \in 1..Len(kinds)} \ {exclusive})

----------------------------------------------------------------------------
(* The macro and the emitted function *)

Init ==
    /\ item \in DeriveInputs
    /\ pc = "derive"
    /\ container = None
    /\ expansion = None
    /\ current = None
    /\ old = None
    /\ differences = <<>>
    /\ collection = <<>>
    /\ checked = None

\* #[proc_macro_derive(CacheDiff)] cache_diff(item)
CacheDiff ==
    /\ pc = "derive"
    /\ \E hashers \in [1..Len(item.fields) -> HashOrders(FieldKnownAttribute, "ignore")] :
          LET parsed == from_derive_input(item, hashers)
          IN  /\ container' = parsed
              /\ expansion' = create_cache_diff(parsed)
              /\ pc' = IF parsed.ok THEN "built" ELSE "compile_error"
    /\ UNCHANGED <<item, current, old, differences, collection, checked>>

\* A call current.diff(&old) of the emitted impl
Diff ==
    /\ pc = "built"
    /\ Compiles(item, expansion.val)
    /\ \E self \in Instances(item), old_ \in Instances(item) :
          /\ current' = Some(self)
          /\ old' = Some(old_)
          /\ differences' = diff(expansion.val, self, old_)
    /\ pc' = "diffed"
    /\ UNCHANGED <<item, container, expansion, collection, checked>>

Next == CacheDiff \/ Diff

Spec == Init /\ [][Next]_vars

----------------------------------------------------------------------------
(* The validators of shared.rs, called on their own *)

InitValidators ==
    /\ collection \in Collections
    /\ pc = "validate"
    /\ checked = None
    /\ item = None
    /\ container = None
    /\ expansion = None
    /\ current = None
    /\ old = None
    /\ differences = <<>>

CallUnique ==
    /\ pc = "validate"
    /\ checked' = [fn |-> "unique", result |-> unique(collection)]
    /\ pc' = "validated"
    /\ UNCHANGED <<item, container, expansion, current, old, differences, collection>>

CallCheckExclusive ==
    /\ pc = "validate"
    /\ \E hasher \in HashOrders(FieldKnownAttribute, "ignore") :
          checked' = [fn |-> "check_exclusive",
                      result |-> check_exclusive("ignore", collection, hasher)]
    /\ pc' = "validated"
    /\ UNCHANGED <<item, container, expansion, current, old, differences, collection>>

NextValidators == CallUnique \/ CallCheckExclusive

SpecValidators == InitValidators /\ [][NextValidators]_vars

----------------------------------------------------------------------------
(* What the declaration says, read off the source text of the item *)

\* The raw attributes of the cache_diff blocks of a field or container
RECURSIVE Written(_, _)
Written(attrs, b) ==
    IF b > Len(attrs) THEN <<>>
    ELSE (IF attrs[b].path = NAMESPACE THEN attrs[b].tokens ELSE <<>>)
         \o Written(attrs, b + 1)

Has(attrs, key) == \E j \in 1..Len(Written(attrs, 1)) : Written(attrs, 1)[j].key = key

ArgOf(attrs, key) ==
    Written(attrs, 1)[CHOOSE j \in 1..Len(Written(attrs, 1)) :
                         Written(attrs, 1)[j].key = key].arg

IsPrefix(p, t) == Len(p) <= Len(t) /\ SubSeq(t, 1, Len(p)) = p

\* The indexes of the declared fields that carry no ignore, in declaration order
ActiveFields ==
    SelectSeq([i \in 1..Len(item.fields) |-> i],
              LAMBDA i : ~Has(item.fields[i].attrs, "ignore"))

Underscores(ident) == {j \in 1..Len(ident) : ident[j] = "_"}

\* rename if given, else the declared name with every underscore a space
DeclaredName(field) ==
    IF Has(field.attrs, "rename") THEN ArgOf(field.attrs, "rename").lit
    ELSE [j \in 1..Len(field.ident.v) |->
             IF j \in Underscores(field.ident.v) THEN " " ELSE field.ident.v[j]]

Differs(i) == Ne(current.v[item.fields[i].ident.v], old.v[item.fields[i].ident.v])

DifferingActive == SelectSeq(ActiveFields, Differs)

\* What the declared custom hook returns for (old, current)
HookOutput ==
    IF Has(item.attrs, "custom") THEN diff_cache_usage_count(old.v, current.v) ELSE <<>>

\* The entries of the result that follow the hook's
FieldEntries == SubSeq(differences, Len(HookOutput) + 1, Len(differences))

\* The field model the builder resolved for the i-th declared field
Resolved(i) ==
    container.val.fields[CHOOSE k \in 1..Len(container.val.fields) :
                            container.val.fields[k].ident = item.fields[i].ident.v]

\* "<display_name> (<old> to <new>)" for the i-th declared field
Entry(i) ==
    DeclaredName(item.fields[i])
      \o <<" (">> \o CallDisplay(Resolved(i).display, old.v[item.fields[i].ident.v])
      \o <<" to ">> \o CallDisplay(Resolved(i).display, current.v[item.fields[i].ident.v])
      \o <<")">>

----------------------------------------------------------------------------
(* The generated diff *)

\* C1: diff(current, old) is the output of custom(old, current), in the
\* order returned (nothing without a hook), then one entry for each
\* non-ignored field whose values differ, in declaration order; ignored
\* fields give no entry.
DiffOrder ==
    pc = "diffed" =>
        /\ Len(differences) = Len(HookOutput) + Len(DifferingActive)
        /\ SubSeq(differences, 1, Len(HookOutput)) = HookOutput
        /\ \A k \in 1..Len(DifferingActive) :
              IsPrefix(DeclaredName(item.fields[DifferingActive[k]]) \o <<" (">>,
                       differences[Len(HookOutput) + k])

\* The hook returned something, the active field differs and an ignored
\* field differs too.
DiffOrderWitness ==
    /\ pc = "diffed"
    /\ HookOutput # <<>>
    /\ Len(DifferingActive) = 1
    /\ \E i \in 1..Len(item.fields) : Has(item.fields[i].attrs, "ignore") /\ Differs(i)

\* C2: every field-level entry is "{display_name} ({old} to {new})", the old
\* value first, both rendered by the resolved display function; display_name
\* is the rename value, else the field name with every underscore a space.
EntryFormat ==
    pc = "diffed" =>
        /\ Len(FieldEntries) = Len(DifferingActive)
        /\ \A k \in 1..Len(FieldEntries) : FieldEntries[k] = Entry(DifferingActive[k])

\* An entry of a field with two underscores in its name, rendered by a
\* display function that is not the identity, old and new values distinct.
EntryFormatWitness ==
    /\ pc = "diffed"
    /\ \E k \in 1..Len(DifferingActive) :
          LET f == item.fields[DifferingActive[k]]
          IN  /\ Cardinality(Underscores(f.ident.v)) = 2
              /\ ~Has(f.attrs, "rename")
              /\ Resolved(DifferingActive[k]).display = <<"my_function">>
              /\ old.v[f.ident.v] # current.v[f.ident.v]

\* C3: instances equal on every active field, whatever their ignored
\* fields hold, and a hook returning nothing: the diff is empty.
EqualGivesEmpty ==
    (pc = "diffed" /\ DifferingActive = <<>> /\ HookOutput = <<>>) => differences = <<>>

\* A hook is declared and returns nothing, the active fields are equal and
\* an ignored field differs.
EqualGivesEmptyWitness ==
    /\ pc = "diffed"
    /\ DifferingActive = <<>>
    /\ Has(item.attrs, "custom")
    /\ HookOutput = <<>>
    /\ \E i \in 1..Len(item.fields) : Has(item.fields[i].attrs, "ignore") /\ Differs(i)

\* C4 as stated: instances that differ in exactly one active field give a
\* list of exactly one element, the entry of that field.
OneDifferenceOneEntry ==
    (pc = "diffed" /\ Len(DifferingActive) = 1) =>
        differences = <<Entry(DifferingActive[1])>>

\* C4 amended: the same when the custom hook, if any, returns nothing.
OneDifferenceOneEntryNoHookOutput ==
    (pc = "diffed" /\ Len(DifferingActive) = 1 /\ HookOutput = <<>>) =>
        differences = <<Entry(DifferingActive[1])>>

\* Two active fields, exactly one of them differs, a declared hook is silent.
OneDifferenceWitness ==
    /\ pc = "diffed"
    /\ Len(ActiveFields) = 2
    /\ Len(DifferingActive) = 1
    /\ Has(item.attrs, "custom")
    /\ HookOutput = <<>>

\* C5 as stated: the diff of an instance against itself is what the hook
\* returns for (x, x), whatever the equality of the field types.
SelfDiffIsHookOutput ==
    (pc = "diffed" /\ current = old) => differences = HookOutput

\* Every active field of the instance holds a value equal to itself
ReflexiveOnActive ==
    \A k \in 1..Len(ActiveFields) :
        ~Ne(current.v[item.fields[ActiveFields[k]].ident.v],
            current.v[item.fields[ActiveFields[k]].ident.v])

\* An instance with an active f32 field holding NaN, compared with itself:
\* the result holds an entry for that field.
SelfDiffWitness ==
    /\ pc = "diffed"
    /\ current = old
    /\ ~ReflexiveOnActive
    /\ Len(differences) = Len(HookOutput) + 1
    /\ \E k \in 1..Len(ActiveFields) :
          /\ IsNaN(current.v[item.fields[ActiveFields[k]].ident.v])
          /\ differences[Len(differences)] = Entry(ActiveFields[k])

----------------------------------------------------------------------------
(* The validators *)

KindAt(i) == collection[i].attr.kind

\* The positions whose kind already occurred earlier in the list, in order
Repeats ==
    SelectSeq([i \in 1..Len(collection) |-> i],
              LAMBDA i : \E j \in 1..(i - 1) : KindAt(j) = KindAt(i))

FirstOccurrence(i) == CHOOSE j \in 1..i :
    KindAt(j) = KindAt(i) /\ \A h \in 1..(j - 1) : KindAt(h) # KindAt(i)

LatestBefore(i) == CHOOSE j \in 1..(i - 1) :
    KindAt(j) = KindAt(i) /\ \A h \in (j + 1)..(i - 1) : KindAt(h) # KindAt(i)

DuplicateMessage(kind) == <<"CacheDiff", " duplicate attribute: ", BQ, kind, BQ>>
PreviouslyMessage(kind) == <<"previously ", BQ, kind, BQ, " defined here">>

\* Two diagnostics for every repeat from the k-th on: the duplicate, then
\* the first occurrence of the kind, or the latest occurrence before it
RECURSIVE RepeatDiagnostics(_, _)
RepeatDiagnostics(k, first) ==
    IF k > Len(Repeats) THEN <<>>
    ELSE << [span |-> collection[Repeats[k]].span,
             msg |-> DuplicateMessage(KindAt(Repeats[k]))],
            [span |-> collection[IF first THEN FirstOccurrence(Repeats[k])
                                 ELSE LatestBefore(Repeats[k])].span,
             msg |-> PreviouslyMessage(KindAt(Repeats[k]))] >>
         \o RepeatDiagnostics(k + 1, first)

\* Without a repeat unique returns the map from every kind present to its
\* attribute and span
UniqueMapsEveryKind ==
    /\ checked.result.ok
    /\ DOMAIN checked.result.val = {KindAt(i) : i \in 1..Len(collection)}
    /\ \A i \in 1..Len(collection) : checked.result.val[KindAt(i)] = collection[i]

\* C6 as stated: every repeat adds the duplicate diagnostic at its span and
\* the previously diagnostic at the span of the first occurrence of the kind.
UniqueReportsFirstOccurrence ==
    (pc = "validated" /\ checked.fn = "unique") =>
        IF Repeats = <<>> THEN UniqueMapsEveryKind
        ELSE ~checked.result.ok /\ checked.result.err = RepeatDiagnostics(1, TRUE)

\* C6 amended: the previously diagnostic is at the span of the latest
\* occurrence of the kind before the repeat (the first one for a kind that
\* occurs twice).
UniqueReportsLatestOccurrence ==
    (pc = "validated" /\ checked.fn = "unique") =>
        IF Repeats = <<>> THEN UniqueMapsEveryKind
        ELSE ~checked.result.ok /\ checked.result.err = RepeatDiagnostics(1, FALSE)

\* unique has run on a list where a kind occurs three times, next to an
\* attribute of another kind.
UniqueWitness ==
    /\ pc = "validated"
    /\ checked.fn = "unique"
    /\ Len(Repeats) = 2
    /\ KindAt(Repeats[1]) = KindAt(Repeats[2])
    /\ \E i \in 1..Len(collection) : KindAt(i) # KindAt(Repeats[1])

IgnorePositions == {i \in 1..Len(collection) : KindAt(i) = "ignore"}

Conflict == IgnorePositions # {} /\ IgnorePositions # 1..Len(collection)

RemoveEitherWording == <<"cannot be used with other attributes. Remove ether ">>
CannotBeUsedWording == <<"cannot be used with #[", "cache_diff", "(", "ignore", ")]">>

\* C7: when ignore stands with an attribute of another kind, the error holds
\* exactly one diagnostic per attribute, at its span, worded "remove either"
\* for an ignore and "cannot be used with ignore" for the others; without
\* ignore, or with ignore alone, there is no error.
ExclusiveOnePerAttribute ==
    (pc = "validated" /\ checked.fn = "check_exclusive") =>
        IF Conflict
        THEN /\ ~checked.result.ok
             /\ Len(checked.result.err) = Len(collection)
             /\ \A i \in 1..Len(collection) :
                  \E d \in 1..Len(checked.result.err) :
                     /\ checked.result.err[d].span = collection[i].span
                     /\ IF i \in IgnorePositions
                        THEN IsPrefix(RemoveEitherWording, checked.result.err[d].msg)
                        ELSE checked.result.err[d].msg = CannotBeUsedWording
        ELSE checked.result.ok

\* check_exclusive has run on two ignore attributes next to a rename and a
\* display.
ExclusiveWitness ==
    /\ pc = "validated"
    /\ checked.fn = "check_exclusive"
    /\ Cardinality(IgnorePositions) = 2
    /\ {KindAt(i) : i \in 1..Len(collection)} = {"ignore", "rename", "display"}

----------------------------------------------------------------------------
(* The container model builder *)

Derived == pc # "derive" /\ item.data = "struct_named"

\* The container's blocks hold one well-formed custom and nothing else
CustomResolved ==
    /\ Len(Written(item.attrs, 1)) = 1
    /\ Written(item.attrs, 1)[1].key = "custom"
    /\ Written(item.attrs, 1)[1].arg.t = "path"

\* The field's blocks hold one well-formed ignore and nothing else
Ignored(i) ==
    /\ Len(Written(item.fields[i].attrs, 1)) = 1
    /\ Written(item.fields[i].attrs, 1)[1].key = "ignore"
    /\ Written(item.fields[i].attrs, 1)[1].arg.t # "path"

IgnoredAsCustom(i) ==
    Ignored(i) /\ Written(item.fields[i].attrs, 1)[1].arg = Lit(<<"custom">>)

NamesMissingCustom(msg, i) ==
    /\ IsPrefix(<<"field ", BQ>> \o item.fields[i].ident.v \o <<BQ, " on ">>, msg)
    /\ \E j \in 1..Len(msg) : msg[j] = " marked ignored as custom, but missing "

MissingCustomReported(i) ==
    /\ ~container.ok
    /\ \E d \in 1..Len(container.err) : NamesMissingCustom(container.err[d].msg, i)

\* No diagnostic points into the i-th field
NoErrorAt(i) ==
    container.ok \/ \A d \in 1..Len(container.err) : container.err[d].span[1] # i

NotActive(i) ==
    container.ok =>
        \A k \in 1..Len(container.val.fields) :
            container.val.fields[k].ident # item.fields[i].ident.v

\* C8: a field ignored as "custom" gets the missing custom diagnostic exactly
\* when no custom function was resolved; with one it is left out of the
\* active fields without error; a field ignored for another reason is left
\* out and never gets the diagnostic.
MissingCustomIffNoHook ==
    Derived =>
        \A i \in 1..Len(item.fields) :
            /\ IgnoredAsCustom(i) =>
                  /\ MissingCustomReported(i) <=> ~CustomResolved
                  /\ NotActive(i)
                  /\ NoErrorAt(i)
            /\ (Ignored(i) /\ ~IgnoredAsCustom(i)) =>
                  /\ ~MissingCustomReported(i)
                  /\ NotActive(i)
                  /\ NoErrorAt(i)

\* A field ignored as "custom" on a struct whose custom attribute did not
\* parse, and the diagnostic names the field.
MissingCustomWitness ==
    /\ Derived
    /\ item.attrs # <<>>
    /\ ~CustomResolved
    /\ \E i \in 1..Len(item.fields) : IgnoredAsCustom(i) /\ MissingCustomReported(i)

NoFieldsMessage ==
    <<"No fields to compare for ", "CacheDiff",
      ", ensure struct has at least one named field that isn't ", BQ,
      "cache_diff", "(", "ignore", ")", BQ>>

\* The struct has no problem, and no field that is not ignored
AllIgnoredNoProblem ==
    /\ Written(item.attrs, 1) = <<>> \/ CustomResolved
    /\ \A i \in 1..Len(item.fields) :
          Ignored(i) /\ (IgnoredAsCustom(i) => CustomResolved)

\* C9: a model that was built has an active field; a named struct without
\* fields, or with every field ignored, and no other problem, fails with the
\* single error "No fields to compare ..".
ActiveFieldsNotEmpty ==
    Derived =>
        /\ container.ok => container.val.fields # <<>>
        /\ AllIgnoredNoProblem =>
              container = Err(<<[span |-> IdentSpan, msg |-> NoFieldsMessage]>>)

\* Two fields, both ignored, one of them as "custom" with the hook declared.
ActiveFieldsWitness ==
    /\ Derived
    /\ AllIgnoredNoProblem
    /\ Len(item.fields) = 2
    /\ \E i \in 1..2 : IgnoredAsCustom(i)
    /\ ~container.ok

\* A raw field attribute the field grammar rejects
BadFieldToken(tok) ==
    \/ tok.key \notin {"rename", "display", "ignore"}
    \/ tok.key = "rename" /\ tok.arg.t # "lit"
    \/ tok.key = "display" /\ tok.arg.t # "path"
    \/ tok.key = "ignore" /\ tok.arg.t = "path"

Malformed(block) ==
    /\ block.path = NAMESPACE
    /\ \E j \in 1..Len(block.tokens) : BadFieldToken(block.tokens[j])

MalformedBlocks ==
    {ib \in (1..Len(item.fields)) \X (1..MaxWritten + 1) :
        /\ ib[2] <= Len(item.fields[ib[1]].attrs)
        /\ Malformed(item.fields[ib[1]].attrs[ib[2]])}

\* The raw attributes of the well-formed blocks of a field
RECURSIVE WellFormed(_, _)
WellFormed(attrs, b) ==
    IF b > Len(attrs) THEN <<>>
    ELSE (IF attrs[b].path = NAMESPACE /\ ~Malformed(attrs[b])
          THEN attrs[b].tokens ELSE <<>>)
         \o WellFormed(attrs, b + 1)

\* The well-formed blocks of the field have no problem of their own
NoOtherProblem(i) ==
    LET w == WellFormed(item.fields[i].attrs, 1)
    IN  /\ \A j, k \in 1..Len(w) : j # k => w[j].key # w[k].key
        /\ (\E j \in 1..Len(w) : w[j].key = "ignore") => Len(w) = 1
        /\ (\E j \in 1..Len(w) : w[j] = Tok("ignore", Lit(<<"custom">>))) => CustomResolved

OnlyMalformedBlocks ==
    /\ Written(item.attrs, 1) = <<>> \/ CustomResolved
    /\ MalformedBlocks # {}
    /\ \A i \in 1..Len(item.fields) : NoOtherProblem(i)

DiagnosticsAt(ib) ==
    {d \in 1..Len(container.err) :
        container.err[d].span[1] = ib[1] /\ container.err[d].span[2] = ib[2]}

\* C10: when malformed blocks on the fields are the only problems, the
\* error holds exactly one diagnostic per malformed block, over all blocks
\* of all fields.
OneDiagnosticPerMalformedBlock ==
    (Derived /\ OnlyMalformedBlocks) =>
        /\ ~container.ok
        /\ Len(container.err) = Cardinality(MalformedBlocks)
        /\ \A ib \in MalformedBlocks : Cardinality(DiagnosticsAt(ib)) = 1

\* Two malformed blocks on one field, one of them with two raw attributes.
MalformedBlocksWitness ==
    /\ Derived
    /\ OnlyMalformedBlocks
    /\ \E ib, jb \in MalformedBlocks :
          /\ ib[1] = jb[1]
          /\ ib[2] # jb[2]
          /\ Len(item.fields[ib[1]].attrs[ib[2]].tokens) = 2

----------------------------------------------------------------------------
(* The field model builder *)

\* The declared type of the field is PathBuf
DeclaredPathBuf(field) ==
    /\ field.ty.kind = "path"
    /\ field.ty.segments # <<>>
    /\ field.ty.segments[Len(field.ty.segments)] = "PathBuf"
    /\ ~field.ty.arguments

\* C11: the display function of a field without errors is the path of its
\* display attribute when it has one, also on a PathBuf; else
\* std::path::Path::display when the declared type is PathBuf; else
\* std::convert::identity.
DisplayResolution ==
    (Derived /\ container.ok) =>
        \A k \in 1..Len(ActiveFields) :
            Resolved(ActiveFields[k]).display =
                IF Has(item.fields[ActiveFields[k]].attrs, "display")
                THEN ArgOf(item.fields[ActiveFields[k]].attrs, "display").path
                ELSE IF DeclaredPathBuf(item.fields[ActiveFields[k]])
                THEN <<"std", "path", "Path", "display">>
                ELSE <<"std", "convert", "identity">>

\* A PathBuf field with a display attribute next to a PathBuf field without.
DisplayResolutionWitness ==
    /\ Derived
    /\ container.ok
    /\ \E i, j \in 1..Len(item.fields) :
          /\ DeclaredPathBuf(item.fields[i])
          /\ Has(item.fields[i].attrs, "display")
          /\ Resolved(i).display = <<"my_function">>
          /\ DeclaredPathBuf(item.fields[j])
          /\ Resolved(j).display = <<"std", "path", "Path", "display">>

\* A block of the field fails to parse, and the blocks that parse hold
\* ignore together with another kind
PartlyParsedConflict(i) ==
    /\ \E b \in 1..Len(item.fields[i].attrs) : Malformed(item.fields[i].attrs[b])
    /\ \E j \in 1..Len(WellFormed(item.fields[i].attrs, 1)) :
          WellFormed(item.fields[i].attrs, 1)[j].key = "ignore"
    /\ \E j \in 1..Len(WellFormed(item.fields[i].attrs, 1)) :
          WellFormed(item.fields[i].attrs, 1)[j].key # "ignore"

IsExclusivityDiagnostic(d) ==
    IsPrefix(RemoveEitherWording, d.msg) \/ d.msg = CannotBeUsedWording

\* The diagnostics that point into the i-th field
FieldDiagnostics(i) ==
    {d \in 1..Len(container.err) : container.err[d].span[1] = i}

ExclusivityDiagnostics(i) ==
    {d \in FieldDiagnostics(i) : IsExclusivityDiagnostic(container.err[d])}

MalformedBlocksOf(i) == {ib \in MalformedBlocks : ib[1] = i}

----------------------------------------------------------------------------
(* Accumulation of the errors of one declaration *)

\* A raw container attribute the container grammar rejects
BadContainerToken(tok) == tok.key # "custom" \/ tok.arg.t # "path"

\* The container's blocks fail to parse, or repeat custom
ContainerProblem ==
    \/ \E j \in 1..Len(Written(item.attrs, 1)) : BadContainerToken(Written(item.attrs, 1)[j])
    \/ Len(Written(item.attrs, 1)) >= 2

\* The diagnostics that point into the blocks of the container
ContainerDiagnostics ==
    {d \in 1..Len(container.err) :
        container.err[d].span[1] = 0 /\ container.err[d].span[2] >= 1}

\* The error holds what the field model builder reports for the i-th field
ReportsField(i) ==
    \E hasher \in HashOrders(FieldKnownAttribute, "ignore") :
        IF from_field(item.fields[i], i, hasher).ok
        THEN FieldDiagnostics(i) = {}
        ELSE /\ Cardinality(FieldDiagnostics(i)) =
                    Len(from_field(item.fields[i], i, hasher).err)
             /\ \A e \in 1..Len(from_field(item.fields[i], i, hasher).err) :
                   \E d \in FieldDiagnostics(i) :
                      container.err[d] = from_field(item.fields[i], i, hasher).err[e]

\* C13: a failure of the container's attributes (malformed block, unknown
\* key, repeated custom) makes the build fail, and on a named struct every
\* field is still run through the field model builder: the error holds the
\* container's diagnostics and every diagnostic of every field.
ContainerFailureKeepsFields ==
    (Derived /\ ContainerProblem) =>
        /\ ~container.ok
        /\ ContainerDiagnostics # {}
        /\ \A i \in 1..Len(item.fields) : ReportsField(i)

\* A container with a rejected attribute on a struct with a field that has
\* errors of its own and a field that has none.
ContainerFailureWitness ==
    /\ Derived
    /\ ContainerProblem
    /\ ~container.ok
    /\ \E i, j \in 1..Len(item.fields) :
          /\ FieldDiagnostics(i) # {}
          /\ FieldDiagnostics(j) = {}

ShapeMessage == <<"CacheDiff", " can only be used on named structs">>

\* C14: for a declaration that is no named struct and whose container
\* blocks are malformed or repeat custom, the one report holds the 'can
\* only be used on named structs' error and the container's diagnostics.
ShapeAndContainerErrorsTogether ==
    (pc # "derive" /\ item.data # "struct_named" /\ ContainerProblem) =>
        /\ ~container.ok
        /\ \E d \in 1..Len(container.err) : container.err[d].msg = ShapeMessage
        /\ ContainerDiagnostics # {}

\* The macro has run on an enum with a rejected container attribute: the
\* report is the shape error alone.
ShapeErrorAloneWitness ==
    /\ pc # "derive"
    /\ item.data = "enum"
    /\ ContainerProblem
    /\ container = Err(<<[span |-> IdentSpan, msg |-> ShapeMessage]>>)

AllBlocksParse(i) == MalformedBlocksOf(i) = {}

\* ignore stands with an attribute of another kind on the i-th field
FieldConflict(i) ==
    /\ \E j \in 1..Len(Written(item.fields[i].attrs, 1)) :
          Written(item.fields[i].attrs, 1)[j].key = "ignore"
    /\ \E j \in 1..Len(Written(item.fields[i].attrs, 1)) :
          Written(item.fields[i].attrs, 1)[j].key # "ignore"

\* The attributes of the i-th field whose kind occurred before on the field
FieldRepeats(i) ==
    {j \in 1..Len(Written(item.fields[i].attrs, 1)) :
        \E h \in 1..(j - 1) :
            Written(item.fields[i].attrs, 1)[h].key = Written(item.fields[i].attrs, 1)[j].key}

ExpectedExclusivity(i) ==
    IF FieldConflict(i) THEN Len(Written(item.fields[i].attrs, 1)) ELSE 0

DuplicateDiagnostics(i) ==
    {d \in FieldDiagnostics(i) :
        IsPrefix(<<"CacheDiff", " duplicate attribute: ">>, container.err[d].msg)}

PreviouslyDiagnostics(i) ==
    {d \in FieldDiagnostics(i) : IsPrefix(<<"previously ">>, container.err[d].msg)}

\* C15: for a field whose blocks all parse, the exclusivity check and the
\* uniqueness check both run: the error holds one exclusivity diagnostic per
\* attribute when ignore stands with another kind, two uniqueness
\* diagnostics per repeated occurrence, and nothing else for the field.
BothChecksRun ==
    Derived =>
        \A i \in 1..Len(item.fields) :
            AllBlocksParse(i) =>
                IF ExpectedExclusivity(i) = 0 /\ FieldRepeats(i) = {}
                THEN NoErrorAt(i)
                ELSE /\ ~container.ok
                     /\ Cardinality(ExclusivityDiagnostics(i)) = ExpectedExclusivity(i)
                     /\ Cardinality(DuplicateDiagnostics(i)) = Cardinality(FieldRepeats(i))
                     /\ Cardinality(PreviouslyDiagnostics(i)) = Cardinality(FieldRepeats(i))
                     /\ Cardinality(FieldDiagnostics(i)) =
                           ExpectedExclusivity(i) + 2 * Cardinality(FieldRepeats(i))

\* A field that breaks both rules: ignore, ignore, rename.
BothChecksWitness ==
    /\ Derived
    /\ ~container.ok
    /\ \E i \in 1..Len(item.fields) :
          /\ AllBlocksParse(i)
          /\ ExpectedExclusivity(i) = 3
          /\ Cardinality(FieldRepeats(i)) = 1
          /\ Cardinality(FieldDiagnostics(i)) = 5

\* Something on the i-th field makes the builder push a diagnostic
FieldProblem(i) ==
    \/ MalformedBlocksOf(i) # {}
    \/ FieldConflict(i)
    \/ FieldRepeats(i) # {}
    \/ IgnoredAsCustom(i) /\ ~CustomResolved

AnyProblem == ContainerProblem \/ \E i \in 1..Len(item.fields) : FieldProblem(i)

\* C16: on a named struct, once every field was processed: with a
\* diagnostic accumulated the result is the combined error, without the
\* 'No fields to compare' error, also when no field is active; that error
\* is the result only with nothing accumulated and no active field; the
\* build succeeds only with nothing accumulated and an active field.
OutcomePrecedence ==
    Derived =>
        /\ AnyProblem =>
              /\ ~container.ok
              /\ \A d \in 1..Len(container.err) : container.err[d].msg # NoFieldsMessage
              /\ \A i \in 1..Len(item.fields) : ReportsField(i)
        /\ (~AnyProblem /\ ActiveFields = <<>>) =>
              container = Err(<<[span |-> IdentSpan, msg |-> NoFieldsMessage]>>)
        /\ (~AnyProblem /\ ActiveFields # <<>>) => container.ok

\* The only field is ignored as "custom" and no custom function is
\* declared: the error is the missing custom diagnostic.
OutcomePrecedenceWitness ==
    /\ Derived
    /\ Len(item.fields) = 1
    /\ IgnoredAsCustom(1)
    /\ Written(item.attrs, 1) = <<>>
    /\ ~container.ok
    /\ Len(container.err) = 1
    /\ MissingCustomReported(1)

----------------------------------------------------------------------------
(* Determinism *)

\* The iteration orders the hash sets of one run can have, field by field
RunOrders == [1..Len(item.fields) -> HashOrders(FieldKnownAttribute, "ignore")]

\* C17: two runs on the same declaration give the same outcome: the same
\* container model, or the same diagnostics with the same text and spans,
\* whatever the order the hash set of the kinds iterates in.
SameOutcomeEveryRun ==
    pc # "derive" =>
        \A hashers \in RunOrders : from_derive_input(item, hashers) = container

\* The macro has run on a field that holds ignore, rename and display, and
\* another run gives the same diagnostics but for the text of one.
OtherOutcomeWitness ==
    /\ Derived
    /\ ~container.ok
    /\ \E i \in 1..Len(item.fields) :
          {Written(item.fields[i].attrs, 1)[j].key :
              j \in 1..Len(Written(item.fields[i].attrs, 1))} = {"ignore", "rename", "display"}
    /\ \E hashers \in RunOrders :
          /\ ~from_derive_input(item, hashers).ok
          /\ Len(from_derive_input(item, hashers).err) = Len(container.err)
          /\ \A d \in 1..Len(container.err) :
                from_derive_input(item, hashers).err[d].span = container.err[d].span
          /\ Cardinality({d \in 1..Len(container.err) :
                from_derive_input(item, hashers).err[d].msg # container.err[d].msg}) = 1

=============================================================================
